---- MODULE Spec2Model ----
(***************************************************************************)
(* Model of the validation-criteria form controller of                     *)
(* src/app/template/admin_lesson_script.js: the type selector, the fields  *)
(* container, handleValidationChange (the Field Renderer),                 *)
(* buildValidationCriteria (build) and populateValidationFields (populate).*)
(*                                                                         *)
(* Texts (the .value of an input or textarea) are sequences of             *)
(* one-character strings, so that JSON.parse and JSON.stringify are        *)
(* computed character by character.  JavaScript values are records         *)
(*   [k |-> kind, n |-> number, s |-> text, a |-> elements]                *)
(* with kind one of "undef", "null", "bool", "num", "str", "arr", "obj".   *)
(***************************************************************************)
EXTENDS Integers, Sequences, FiniteSets, TLC

\* ------------------------------------------------------------------ bounds
\* Numbers that occur in criteria objects are 0..MaxNum.
MaxNum == 1
\* The args sequence of a criteria object has at most MaxArgs elements.
MaxArgs == 2

\* --------------------------------------------------------- JavaScript values
Undef == [k |-> "undef", n |-> 0, s |-> <<>>, a |-> <<>>]
Null == [k |-> "null", n |-> 0, s |-> <<>>, a |-> <<>>]
EmptyObj == [k |-> "obj", n |-> 0, s |-> <<>>, a |-> <<>>]
Bool(b) == [k |-> "bool", n |-> IF b THEN 1 ELSE 0, s |-> <<>>, a |-> <<>>]
Num(i) == [k |-> "num", n |-> i, s |-> <<>>, a |-> <<>>]
Str(t) == [k |-> "str", n |-> 0, s |-> t, a |-> <<>>]
Arr(e) == [k |-> "arr", n |-> 0, s |-> <<>>, a |-> e]

\* ToBoolean, as used by the || and ! operators of the code.
Truthy(v) ==
    CASE v.k = "undef" -> FALSE
      [] v.k = "null" -> FALSE
      [] v.k = "bool" -> v.n = 1
      [] v.k = "num" -> v.n # 0
      [] v.k = "str" -> v.s # <<>>
      [] OTHER -> TRUE

\* a || b
OrElse(a, b) == IF Truthy(a) THEN a ELSE b

\* ------------------------------------------------------------ JSON texts
Q == "\""
Backslash == "\\"
LF == "\n"
CR == "\r"
Tab == "\t"
WhiteSpace == {" ", LF, CR, Tab}
Digits == <<"0", "1", "2", "3", "4", "5", "6", "7", "8", "9">>
IsDigit(c) == \E i \in 1..Len(Digits) : Digits[i] = c
DigitVal(c) == (CHOOSE i \in 1..Len(Digits) : Digits[i] = c) - 1

RECURSIVE NumToText(_)
NumToText(i) ==
    IF i < Len(Digits) THEN <<Digits[i + 1]>>
    ELSE NumToText(i \div Len(Digits)) \o <<Digits[(i % Len(Digits)) + 1]>>

NullText == <<"n", "u", "l", "l">>
TrueText == <<"t", "r", "u", "e">>
FalseText == <<"f", "a", "l", "s", "e">>
UndefinedText == <<"u", "n", "d", "e", "f", "i", "n", "e", "d">>

\* The characters of a JSON string literal for the character c.
EscapeChar(c) ==
    CASE c = Q -> <<Backslash, Q>>
      [] c = Backslash -> <<Backslash, Backslash>>
      [] c = LF -> <<Backslash, "n">>
      [] c = CR -> <<Backslash, "r">>
      [] c = Tab -> <<Backslash, "t">>
      [] OTHER -> <<c>>

RECURSIVE EscapeText(_)
EscapeText(t) ==
    IF t = <<>> THEN <<>> ELSE EscapeChar(Head(t)) \o EscapeText(Tail(t))

\* JSON.stringify of a value that is not undefined (undefined nested in an
\* array is written null).
RECURSIVE SerializeValue(_)
RECURSIVE SerializeElements(_)
SerializeElements(e) ==
    IF Len(e) = 0 THEN <<>>
    ELSE IF Len(e) = 1 THEN SerializeValue(e[1])
    ELSE SerializeValue(e[1]) \o <<",">> \o SerializeElements(Tail(e))

SerializeValue(v) ==
    CASE v.k = "num" -> NumToText(v.n)
      [] v.k = "str" -> <<Q>> \o EscapeText(v.s) \o <<Q>>
      [] v.k = "bool" -> IF v.n = 1 THEN TrueText ELSE FalseText
      [] v.k = "arr" -> <<"[">> \o SerializeElements(v.a) \o <<"]">>
      [] v.k = "obj" -> <<"{", "}">>
      [] OTHER -> NullText

\* JSON.stringify(v): a string, or undefined when v is undefined.
JSONstringify(v) == IF v.k = "undef" THEN Undef ELSE Str(SerializeValue(v))

\* JSON.parse over the grammar the model's texts are written in: white space,
\* unsigned integers, string literals with the escapes \" \\ \/ \n \r \t,
\* null, true, false, arrays, and the empty object.
RECURSIVE SkipWs(_, _)
SkipWs(t, i) == IF i <= Len(t) /\ t[i] \in WhiteSpace THEN SkipWs(t, i + 1) ELSE i

RECURSIVE ScanDigits(_, _, _)
ScanDigits(t, i, acc) ==
    IF i <= Len(t) /\ IsDigit(t[i])
    THEN ScanDigits(t, i + 1, acc * Len(Digits) + DigitVal(t[i]))
    ELSE [ok |-> TRUE, v |-> Num(acc), next |-> i]

ParseFail == [ok |-> FALSE, v |-> Undef, next |-> 0]

ParseNumber(t, i) ==
    IF t[i] = "0" THEN [ok |-> TRUE, v |-> Num(0), next |-> i + 1]
    ELSE ScanDigits(t, i, 0)

RECURSIVE ScanString(_, _, _)
ScanString(t, i, acc) ==
    IF i > Len(t) THEN ParseFail
    ELSE IF t[i] = Q THEN [ok |-> TRUE, v |-> Str(acc), next |-> i + 1]
    ELSE IF t[i] = Backslash
    THEN IF i + 1 > Len(t) THEN ParseFail
         ELSE IF t[i + 1] \in {Q, Backslash, "/"}
              THEN ScanString(t, i + 2, Append(acc, t[i + 1]))
         ELSE IF t[i + 1] = "n" THEN ScanString(t, i + 2, Append(acc, LF))
         ELSE IF t[i + 1] = "r" THEN ScanString(t, i + 2, Append(acc, CR))
         ELSE IF t[i + 1] = "t" THEN ScanString(t, i + 2, Append(acc, Tab))
         ELSE ParseFail
    ELSE IF t[i] \in {LF, CR, Tab} THEN ParseFail
    ELSE ScanString(t, i + 1, Append(acc, t[i]))

HasAt(t, i, w) == i + Len(w) - 1 <= Len(t) /\ SubSeq(t, i, i + Len(w) - 1) = w

RECURSIVE ParseValue(_, _)
RECURSIVE ParseElements(_, _, _)
\* The elements of an array after its "[", from position i, up to its "]".
ParseElements(t, i, acc) ==
    LET r == ParseValue(t, i) IN
    IF ~r.ok \/ r.next > Len(t) THEN ParseFail
    ELSE IF t[r.next] = "," THEN ParseElements(t, r.next + 1, Append(acc, r.v))
    ELSE IF t[r.next] = "]"
         THEN [ok |-> TRUE, v |-> Arr(Append(acc, r.v)), next |-> r.next + 1]
    ELSE ParseFail

\* One value with the white space around it, from position i.
ParseValue(t, i) ==
    LET j == SkipWs(t, i)
        r == IF j > Len(t) THEN ParseFail
             ELSE IF IsDigit(t[j]) THEN ParseNumber(t, j)
             ELSE IF t[j] = Q THEN ScanString(t, j + 1, <<>>)
             ELSE IF HasAt(t, j, NullText)
                  THEN [ok |-> TRUE, v |-> Null, next |-> j + Len(NullText)]
             ELSE IF HasAt(t, j, TrueText)
                  THEN [ok |-> TRUE, v |-> Bool(TRUE), next |-> j + Len(TrueText)]
             ELSE IF HasAt(t, j, FalseText)
                  THEN [ok |-> TRUE, v |-> Bool(FALSE), next |-> j + Len(FalseText)]
             ELSE IF t[j] = "["
                  THEN LET m == SkipWs(t, j + 1) IN
                       IF m <= Len(t) /\ t[m] = "]"
                       THEN [ok |-> TRUE, v |-> Arr(<<>>), next |-> m + 1]
                       ELSE ParseElements(t, j + 1, <<>>)
             ELSE IF t[j] = "{"
                  THEN LET m == SkipWs(t, j + 1) IN
                       IF m <= Len(t) /\ t[m] = "}"
                       THEN [ok |-> TRUE, v |-> EmptyObj, next |-> m + 1]
                       ELSE ParseFail
             ELSE ParseFail
    IN IF r.ok THEN [r EXCEPT !.next = SkipWs(t, r.next)] ELSE ParseFail

\* JSON.parse(t): ok = FALSE stands for the SyntaxError it throws.
JSONparse(t) ==
    LET r == ParseValue(t, 1) IN
    IF r.ok /\ r.next = Len(t) + 1 THEN [ok |-> TRUE, v |-> r.v]
    ELSE [ok |-> FALSE, v |-> Undef]

\* The DOMString an input's or textarea's value setter stores for v
\* ([LegacyNullToEmptyString], otherwise ToString of the strings and the
\* undefined the code assigns).
ToDOMString(v) ==
    CASE v.k = "str" -> v.s
      [] v.k = "null" -> <<>>
      [] v.k = "undef" -> UndefinedText
      [] OTHER -> SerializeValue(v)

\* ------------------------------------------------------------ input pools
OkText == <<"o", "k">>
TwoLineText == <<"o", LF, "k">>
OpenArrayText == <<"[", NumToText(MaxNum)[1], ",">>

\* Values the selector can hold: the four criteria types, the empty value
\* and one value that is none of them.
CriteriaTypes == {"exact_match", "contains", "function_call"}
KnownTypes == CriteriaTypes \cup {"none"}
SelectorValues == KnownTypes \cup {"", "regex"}

\* What an operator may type into each field.
FunctionNameTexts == {<<>>, <<"f">>}
FunctionArgsTexts ==
    {<<>>, <<"[", "]">>, OpenArrayText, OkText, NullText, <<"{", "}">>,
     <<Q>> \o OkText \o <<Q>>, <<"[", "1", ",", " ", "0", "]">>}
        \cup {NumToText(i) : i \in 0..MaxNum}
        \cup {<<"[">> \o NumToText(i) \o <<"]">> : i \in 0..MaxNum}
ExpectedOutputTexts ==
    {<<>>, OkText, NullText, <<Q>> \o OkText \o <<Q>>, OpenArrayText,
     <<"[", "1", "]">>, TwoLineText, <<Q>> \o EscapeText(TwoLineText) \o <<Q>>}
        \cup {NumToText(i) : i \in 0..MaxNum}
TextsFor(id) ==
    CASE id = "functionName" -> FunctionNameTexts
      [] id = "functionArgs" -> FunctionArgsTexts
      [] OTHER -> ExpectedOutputTexts

\* ------------------------------------------------------- criteria objects
\* type = TypeAbsent stands for an object without a type member; a member
\* that is Undef is absent.
TypeAbsent == "<absent>"
Criteria(t, fn, ar, ex) ==
    [isNull |-> FALSE, type |-> t, function_name |-> fn, args |-> ar,
     expected |-> ex]
NullCriteria ==
    [isNull |-> TRUE, type |-> TypeAbsent, function_name |-> Undef,
     args |-> Undef, expected |-> Undef]

StringValues ==
    {Str(<<>>), Str(OkText), Str(NumToText(MaxNum)), Str(NullText),
     Str(<<Q>> \o OkText \o <<Q>>), Str(TwoLineText)}
ArgElements == {Num(MaxNum), Str(OkText)}
ArgArrays == {Arr(e) : e \in UNION {[1..m -> ArgElements] : m \in 0..MaxArgs}}
ExpectedValues ==
    StringValues \cup {Null, Bool(FALSE), EmptyObj, Arr(<<Num(MaxNum)>>)}
        \cup {Num(i) : i \in 0..MaxNum}

\* The objects handed to populate: null, well-formed objects of each type,
\* objects with members missing, and objects whose type is none, empty,
\* missing or unrecognized.
CriteriaInputs ==
    {NullCriteria}
        \cup {Criteria(t, Undef, Undef, ex) :
                t \in {"exact_match", "contains"},
                ex \in StringValues \cup {Undef}}
        \cup {Criteria("function_call", fn, Arr(<<Num(MaxNum)>>), Str(OkText)) :
                fn \in {Undef, Str(<<>>), Str(<<"f">>)}}
        \cup {Criteria("function_call", Str(<<"f">>), ar, Num(MaxNum)) :
                ar \in ArgArrays \cup {Undef}}
        \cup {Criteria("function_call", Str(<<"f">>), Arr(<<>>), ex) :
                ex \in ExpectedValues \cup {Undef}}
        \cup {Criteria(t, Undef, Undef, Str(OkText)) :
                t \in {"none", "", TypeAbsent, "regex"}}

\* --------------------------------------------------------------- the DOM
Field(id, tag) == [id |-> id, tag |-> tag, value |-> <<>>]
ExpectedTemplate == <<Field("expectedOutput", "textarea")>>
FunctionCallTemplate ==
    <<Field("functionName", "input"), Field("functionArgs", "input"),
      Field("expectedOutput", "input")>>

\* The value an element keeps of the text assigned to it or typed into it:
\* an <input type="text"> strips line breaks (its value sanitization), a
\* <textarea> reads back with every line break as LF.
RECURSIVE NormalizeNewlines(_)
NormalizeNewlines(t) ==
    IF t = <<>> THEN <<>>
    ELSE IF Head(t) = CR
         THEN <<LF>> \o NormalizeNewlines(
                IF Len(t) >= 2 /\ t[2] = LF THEN Tail(Tail(t)) ELSE Tail(t))
    ELSE <<Head(t)>> \o NormalizeNewlines(Tail(t))

StoredText(tag, t) ==
    IF tag = "input" THEN SelectSeq(t, LAMBDA c : c \notin {LF, CR})
    ELSE NormalizeNewlines(t)

\* document.getElementById(id): the position of the first element of the
\* container with that id, 0 when there is none.
GetElementById(cont, id) ==
    IF \E i \in 1..Len(cont) : cont[i].id = id
    THEN CHOOSE i \in 1..Len(cont) :
            cont[i].id = id /\ \A j \in 1..(i - 1) : cont[j].id # id
    ELSE 0

\* document.getElementById(id)?.value
ValueOf(cont, id) ==
    LET i == GetElementById(cont, id) IN
    IF i = 0 THEN Undef ELSE Str(cont[i].value)

\* if (document.getElementById(id)) document.getElementById(id).value = v
SetValue(cont, id, v) ==
    LET i == GetElementById(cont, id) IN
    IF i = 0 THEN cont
    ELSE [cont EXCEPT ![i].value = StoredText(cont[i].tag, ToDOMString(v))]

\* validationTypeSelector.value = v.  An element that keeps any string
\* stores v; a select element without an option for v is left with no
\* option selected and reads back "".
SelectorAfterAssign(v) == IF v \in KnownTypes THEN {v} ELSE {v, ""}

\* ----------------------------------------------------------------- render
\* handleValidationChange without the clearing assignment of line 64: each
\* template is added to what the container holds.
RenderFieldsAppending(old, selectedType) ==
    old \o (IF selectedType \in {"exact_match", "contains"} THEN ExpectedTemplate
            ELSE IF selectedType = "function_call" THEN FunctionCallTemplate
            ELSE <<>>)

\* handleValidationChange: the container's fields after rendering
\* selectedType over the fields old.
RenderFields(old, selectedType) ==
    LET cleared == <<>> IN
    IF selectedType \in {"exact_match", "contains"} THEN ExpectedTemplate
    ELSE IF selectedType = "function_call" THEN FunctionCallTemplate
    ELSE cleared

\* ------------------------------------------------------------------ build
\* The outcome of one try/catch around JSON.parse: the value assigned and
\* whether alert was called.
Parsed(v, alert) == [v |-> v, alerted |-> alert]

\* The catch block of the arguments swallowing the error and keeping the
\* text.
ParseArgsKeepingText(argsStr) ==
    LET p == JSONparse(argsStr.s) IN
    IF p.ok THEN Parsed(p.v, FALSE) ELSE Parsed(argsStr, FALSE)

\* criteria.args of lines 90-96.
ParseArgs(argsStr) ==
    LET p == JSONparse(argsStr.s) IN
    IF p.ok THEN Parsed(p.v, FALSE) ELSE Parsed(Arr(<<>>), TRUE)

\* The catch block of expected reporting the error like that of the
\* arguments.
ParseExpectedAlerting(expectedVal) ==
    LET p == JSONparse(expectedVal.s) IN
    IF p.ok THEN Parsed(p.v, FALSE) ELSE Parsed(expectedVal, TRUE)

\* criteria.expected of lines 99-103.
ParseExpected(expectedVal) ==
    LET p == JSONparse(expectedVal.s) IN
    IF p.ok THEN Parsed(p.v, FALSE) ELSE Parsed(expectedVal, FALSE)

\* What one run of build yields: the value returned and whether alert ran.
BuildResult(ret, alert) == [ret |-> ret, alerted |-> alert]

\* Lines 83-105: the object built for a type that passed the test of line 79.
BuildObject(type, cont) ==
    IF type = "exact_match" \/ type = "contains"
    THEN BuildResult(
            Criteria(type, Undef, Undef,
                     OrElse(ValueOf(cont, "expectedOutput"), Str(<<>>))),
            FALSE)
    ELSE IF type = "function_call"
    THEN LET fn == OrElse(ValueOf(cont, "functionName"), Str(<<>>))
             argsStr == OrElse(ValueOf(cont, "functionArgs"), Str(<<"[", "]">>))
             args == ParseArgs(argsStr)
             expectedVal == OrElse(ValueOf(cont, "expectedOutput"), Str(<<>>))
             expected == ParseExpected(expectedVal)
         IN BuildResult(Criteria(type, fn, args.v, expected.v),
                        args.alerted \/ expected.alerted)
    ELSE BuildResult(Criteria(type, Undef, Undef, Undef), FALSE)

\* buildValidationCriteria without the test of lines 79-81.
BuildCriteriaNoNullCheck(sel, cont) == BuildObject(sel, cont)

\* buildValidationCriteria: the value it returns for selector value sel and
\* container cont, and whether it called alert.
BuildCriteria(sel, cont) ==
    LET type == sel IN
    IF type = "none" \/ type = "" THEN BuildResult(NullCriteria, FALSE)
    ELSE BuildObject(type, cont)

\* --------------------------------------------------------------- populate
\* populate leaving the selector alone when it is given no type.
PopulatedTypeKeepsCurrent(criteria, current) ==
    IF criteria.isNull \/ criteria.type = TypeAbsent \/ criteria.type = ""
    THEN current
    ELSE criteria.type

\* The value populate assigns to the selector, which holds current.
PopulatedType(criteria, current) ==
    IF criteria.isNull \/ criteria.type = TypeAbsent \/ criteria.type = ""
    THEN "none"
    ELSE criteria.type

\* The container after populate has written criteria into the fields cont
\* that the renderer left.
WriteFields(criteria, cont) ==
    IF criteria.isNull THEN cont
    ELSE IF criteria.type = "exact_match" \/ criteria.type = "contains"
    THEN SetValue(cont, "expectedOutput", OrElse(criteria.expected, Str(<<>>)))
    ELSE IF criteria.type = "function_call"
    THEN LET expected == IF criteria.expected.k # "str"
                         THEN JSONstringify(criteria.expected)
                         ELSE criteria.expected
         IN SetValue(
                SetValue(
                    SetValue(cont, "functionName",
                             OrElse(criteria.function_name, Str(<<>>))),
                    "functionArgs",
                    JSONstringify(OrElse(criteria.args, Arr(<<>>)))),
                "expectedOutput", expected)
    ELSE cont

\* populate without the call of line 115.
PopulatedContainerWithoutRender(criteria, sel, old) == WriteFields(criteria, old)

\* The container populate leaves: the fields rendered for the selector value
\* sel it has just assigned, with the values of criteria written into them.
PopulatedContainer(criteria, sel, old) ==
    WriteFields(criteria, RenderFields(old, sel))

\* ------------------------------------------------------------------ state
VARIABLES
    selector,      \* validationTypeSelector.value
    container,     \* the fields of validationFieldsContainer, in order
    rendered,      \* handleValidationChange has run at least once
    renderedType,  \* the selectedType of its last run
    lastOp,        \* the operation that led to this state
    prevOp,        \* the operation before it
    lastArg,       \* the argument of the populate call, while it matters
    result,        \* what the last build returned
    alerted        \* whether the last build called alert

vars ==
    <<selector, container, rendered, renderedType, lastOp, prevOp, lastArg,
      result, alerted>>

\* The fields the page may hold before any render: none, or one of the two
\* templates already in place.
InitialContainers == {<<>>, ExpectedTemplate, FunctionCallTemplate}

Init ==
    /\ selector \in SelectorValues
    /\ container \in InitialContainers
    /\ rendered = FALSE
    /\ renderedType = ""
    /\ lastOp = "load"
    /\ prevOp = "load"
    /\ lastArg = NullCriteria
    /\ result = NullCriteria
    /\ alerted = FALSE

\* handleValidationChange()
HandleValidationChange ==
    /\ container' = RenderFields(container, selector)
    /\ rendered' = TRUE
    /\ renderedType' = selector
    /\ lastOp' = "render"
    /\ prevOp' = lastOp
    /\ lastArg' = NullCriteria
    /\ result' = NullCriteria
    /\ alerted' = FALSE
    /\ UNCHANGED selector

\* The operator picks another value in the selector; its change listener
\* runs handleValidationChange.
TypeSelected(t) ==
    /\ t # selector
    /\ selector' = t
    /\ container' = RenderFields(container, t)
    /\ rendered' = TRUE
    /\ renderedType' = t
    /\ lastOp' = "select"
    /\ prevOp' = lastOp
    /\ lastArg' = NullCriteria
    /\ result' = NullCriteria
    /\ alerted' = FALSE

\* The operator types text into the i-th field of the container.
EditField(i, text) ==
    /\ i \in 1..Len(container)
    /\ text \in TextsFor(container[i].id)
    /\ text # container[i].value
    /\ container' =
        [container EXCEPT ![i].value = StoredText(container[i].tag, text)]
    /\ lastOp' = "edit"
    /\ prevOp' = lastOp
    /\ lastArg' = NullCriteria
    /\ result' = NullCriteria
    /\ alerted' = FALSE
    /\ UNCHANGED <<selector, rendered, renderedType>>

\* populateValidationFields(criteria)
PopulateValidationFields(criteria) ==
    /\ \E sel \in SelectorAfterAssign(PopulatedType(criteria, selector)) :
        /\ selector' = sel
        /\ renderedType' = sel
        /\ container' = PopulatedContainer(criteria, sel, container)
    /\ rendered' = TRUE
    /\ lastOp' = "populate"
    /\ prevOp' = lastOp
    /\ lastArg' = criteria
    /\ result' = NullCriteria
    /\ alerted' = FALSE

\* buildValidationCriteria()
BuildValidationCriteria ==
    /\ LET b == BuildCriteria(selector, container) IN
        result' = b.ret /\ alerted' = b.alerted
    /\ lastOp' = "build"
    /\ prevOp' = lastOp
    /\ lastArg' = IF lastOp = "populate" THEN lastArg ELSE NullCriteria
    /\ UNCHANGED <<selector, container, rendered, renderedType>>

Next ==
    \/ HandleValidationChange
    \/ \E t \in SelectorValues : TypeSelected(t)
    \/ \E i \in 1..Len(FunctionCallTemplate) :
        \E text \in FunctionNameTexts \cup FunctionArgsTexts \cup ExpectedOutputTexts :
            EditField(i, text)
    \/ \E criteria \in CriteriaInputs : PopulateValidationFields(criteria)
    \/ BuildValidationCriteria

Spec == Init /\ [][Next]_vars

\* ---------------------------------------------------------------- claims
\* The ids of the container's fields, in document order.
IdsOf(cont) == [i \in 1..Len(cont) |-> cont[i].id]

\* The field set the design gives each type.
FieldIdsFor(type) ==
    IF type \in {"exact_match", "contains"} THEN <<"expectedOutput">>
    ELSE IF type = "function_call"
    THEN <<"functionName", "functionArgs", "expectedOutput">>
    ELSE <<>>

HasField(id) == GetElementById(container, id) # 0
\* The text build reads from field id: the field's text, "" when absent.
TextOf(id) ==
    IF HasField(id) THEN container[GetElementById(container, id)].value ELSE <<>>

\* expected as the design derives it from the expected-output field of a
\* function_call form: its JSON value, or the raw text when it is not JSON.
ExpectedFromField ==
    LET p == JSONparse(TextOf("expectedOutput")) IN
    IF p.ok THEN p.v ELSE Str(TextOf("expectedOutput"))

ArgsFieldMalformed ==
    HasField("functionArgs") /\ ~JSONparse(TextOf("functionArgs")).ok

ValidCriteria(c) ==
    /\ ~c.isNull
    /\ c.type \in CriteriaTypes
    /\ c.type \in {"exact_match", "contains"} => c.expected.k = "str"
    /\ c.type = "function_call" =>
        /\ c.function_name.k = "str"
        /\ c.args.k = "arr"
        /\ c.expected.k # "undef"

\* e and r are the same expected value, or e is a string whose text is the
\* JSON representation of r.
SameUpToRepresentation(e, r) ==
    \/ r = e
    \/ e.k = "str" /\ JSONparse(e.s).ok /\ r = JSONparse(e.s).v

ObservablyEqual(c, r) ==
    /\ ~r.isNull
    /\ r.type = c.type
    /\ c.type \in {"exact_match", "contains"} => r.expected = c.expected
    /\ c.type = "function_call" =>
        /\ r.function_name = c.function_name
        /\ r.args = c.args
        /\ SameUpToRepresentation(c.expected, r.expected)

BuiltAfterPopulate == lastOp = "build" /\ prevOp = "populate"

\* C1: building right after populate(c), for a valid criteria object c,
\* returns an object with c's type and c's field values, where a string
\* expected that reads as JSON may come back as the value it denotes.
C1_RoundTrip ==
    (BuiltAfterPopulate /\ ValidCriteria(lastArg)) => ObservablyEqual(lastArg, result)

\* No string member of c that populate writes into a field holds a line
\* break.
SingleLine(c) ==
    \A v \in {c.function_name, c.expected} :
        v.k = "str" => \A i \in 1..Len(v.s) : v.s[i] \notin {LF, CR}

\* The round trip of C1 for the criteria objects without line breaks.
RoundTripSingleLine ==
    (BuiltAfterPopulate /\ ValidCriteria(lastArg) /\ SingleLine(lastArg))
        => ObservablyEqual(lastArg, result)

\* C2: the args member of a function_call object returned by build is
\* always a sequence.
C2_ArgsAlwaysSequence ==
    (lastOp = "build" /\ ~result.isNull /\ result.type = "function_call")
        => result.args.k = "arr"

C3_Outcome ==
    /\ alerted
    /\ ~result.isNull
    /\ result.type = "function_call"
    /\ result.args = Arr(<<>>)
    /\ result.function_name = Str(TextOf("functionName"))
    /\ result.expected = ExpectedFromField

\* C3 as stated: whenever build runs with type function_call and the
\* arguments field holds text that is not valid JSON, alert is called and
\* the object is returned with args empty and the other members intact.
C3_MalformedArgsAlert ==
    (lastOp = "build" /\ selector = "function_call" /\ ArgsFieldMalformed)
        => C3_Outcome

\* C3 amended: the same, for an arguments field holding non-empty text that
\* is not valid JSON.
C3_NonEmptyMalformedArgsAlert ==
    (/\ lastOp = "build"
     /\ selector = "function_call"
     /\ ArgsFieldMalformed
     /\ TextOf("functionArgs") # <<>>)
        => C3_Outcome

C3_Witness ==
    /\ lastOp = "build"
    /\ selector = "function_call"
    /\ TextOf("functionArgs") = OkText
    /\ TextOf("functionName") = <<"f">>
    /\ TextOf("expectedOutput") = NumToText(MaxNum)
    /\ alerted
    /\ result = Criteria("function_call", Str(<<"f">>), Arr(<<>>), Num(MaxNum))

\* C4: for function_call, expected is the JSON value of the expected-output
\* text, or the raw text when it is not JSON, and alert is called only for
\* a malformed arguments field; for exact_match and contains, expected is
\* the field's text verbatim ("" when the field is absent) and alert is
\* not called.
C4_ExpectedFallback ==
    lastOp = "build" =>
        /\ selector = "function_call" =>
            /\ result.expected = ExpectedFromField
            /\ alerted => ArgsFieldMalformed
        /\ selector \in {"exact_match", "contains"} =>
            /\ result.expected = Str(TextOf("expectedOutput"))
            /\ ~alerted

C4_Witness ==
    /\ lastOp = "build"
    /\ selector = "function_call"
    /\ TextOf("expectedOutput") = OkText
    /\ ~ArgsFieldMalformed
    /\ result.expected = Str(OkText)
    /\ ~alerted

\* C5: build returns null whenever the selector holds none or the empty
\* value, whatever the container holds, and never returns an object of type
\* none.
C5_NoneBuildsNull ==
    lastOp = "build" =>
        /\ selector \in {"none", ""} => result.isNull
        /\ ~result.isNull => result.type # "none"

C5_Witness ==
    /\ lastOp = "build"
    /\ selector = "none"
    /\ Len(container) = Len(FunctionCallTemplate)
    /\ TextOf("expectedOutput") # <<>>
    /\ result.isNull

\* C6: populate(null) leaves the container without fields, and a build right
\* after it returns null.
C6_NullIdentity ==
    /\ (lastOp = "populate" /\ lastArg.isNull) => container = <<>>
    /\ (BuiltAfterPopulate /\ lastArg.isNull) =>
            (result.isNull /\ container = <<>>)

C6_Witness == BuiltAfterPopulate /\ lastArg.isNull /\ result.isNull

\* C7: once the renderer has run, the container's fields are exactly the
\* field set of the type of its last run, each id once.
C7_RenderedFieldSet == rendered => IdsOf(container) = FieldIdsFor(renderedType)

C7_Witness ==
    /\ lastOp = "render"
    /\ prevOp = "render"
    /\ renderedType = "function_call"
    /\ IdsOf(container) = FieldIdsFor("function_call")

\* The text the design shows for member v, "" when the member is absent.
TextOrEmpty(v) == IF v.k = "str" THEN v.s ELSE <<>>

\* The text the design shows for the expected member of a function_call
\* object: a string verbatim, anything else as JSON.stringify gives it and
\* the field stores it.
ExpectedDisplay(v) ==
    IF v.k = "str" THEN v.s
    ELSE IF v.k = "undef" THEN UndefinedText
    ELSE SerializeValue(v)

\* The ids and the texts of the container's fields.
FormOf(cont) ==
    [i \in 1..Len(cont) |-> [id |-> cont[i].id, value |-> cont[i].value]]

FormFor(c) ==
    IF c.type = "function_call"
    THEN <<[id |-> "functionName", value |-> TextOrEmpty(c.function_name)],
           [id |-> "functionArgs",
            value |-> IF c.args.k = "undef" THEN <<"[", "]">>
                      ELSE SerializeValue(c.args)],
           [id |-> "expectedOutput", value |-> ExpectedDisplay(c.expected)]>>
    ELSE <<[id |-> "expectedOutput", value |-> TextOrEmpty(c.expected)]>>

\* C8: after populate(c), for c of a recognized type, the selector holds
\* c.type and the container holds exactly the fields of c.type with the
\* values derived from c alone.
C8_PopulateWrites ==
    (lastOp = "populate" /\ ~lastArg.isNull /\ lastArg.type \in CriteriaTypes)
        => (selector = lastArg.type /\ FormOf(container) = FormFor(lastArg))

\* The form of C8 for the criteria objects without line breaks.
PopulateWritesSingleLine ==
    (/\ lastOp = "populate"
     /\ ~lastArg.isNull
     /\ lastArg.type \in CriteriaTypes
     /\ SingleLine(lastArg))
        => (selector = lastArg.type /\ FormOf(container) = FormFor(lastArg))

\* C9: build returns null or an object of type exact_match, contains or
\* function_call carrying that type's members.
C9_BuildTypeEnumerated ==
    lastOp = "build" =>
        \/ result.isNull
        \/ /\ result.type \in CriteriaTypes
           /\ result.expected # Undef
           /\ result.type = "function_call" =>
                (result.function_name # Undef /\ result.args # Undef)

\* C10: once the renderer has run, the container's fields are the field set
\* of the selector's current value in every state, and a build step changes
\* neither the selector nor the container.
C10_SelectorFieldConsistency ==
    /\ [](rendered => IdsOf(container) = FieldIdsFor(selector))
    /\ [][lastOp' = "build" => UNCHANGED <<selector, container>>]_vars

C10_Witness ==
    /\ rendered
    /\ lastOp = "build"
    /\ prevOp = "edit"
    /\ selector = "function_call"
    /\ IdsOf(container) = FieldIdsFor("function_call")
    /\ TextOf("functionArgs") # <<>>

====
